---- MODULE Spec2Model ----
(***************************************************************************)
(* Model of the capture-and-emission engine of ccodegen:                   *)
(*   src/src/user_section.rs  (UserSectionManager)                         *)
(*   src/src/code_writer.rs   (CodeWriter)                                 *)
(*                                                                         *)
(* A text (a Rust str) is a sequence of atoms.  An atom is a string: the   *)
(* newline "\n", the carriage return "\r", one indentation unit, a marker  *)
(* text such as "//!begin 1", or a word of ordinary code such as "a".      *)
(* No atom but "\n" holds a newline.                                       *)
(***************************************************************************)
EXTENDS Integers, Sequences, FiniteSets, TLC

VARIABLES
  sections,          \* UserSectionManager.sections: name -> UserSection
  captured_content,  \* UserSectionManager.captured_content: name -> text
  partial_sections,  \* UserSectionManager.partial_sections: u32 -> text
  written_sections,  \* UserSectionManager.written_sections: set of names
  writer,            \* the CodeWriter: [out, indent_level, with_newline]
  scan,              \* the locals of a running capture_from_string
  call,              \* the last call made on the manager, with its arguments
  result,            \* what that call returned
  pass               \* the generator's regeneration pass: its calls and their results

vars == <<sections, captured_content, partial_sections, written_sections,
          writer, scan, call, result, pass>>

----------------------------------------------------------------------------
(* Bounds of the model *)

\* longest input of a stepwise scan, in lines
MaxLines == 5

\* number of calls made on one manager
MaxCalls == 3

\* number of emission calls of one regeneration pass
MaxEmissions == 3

\* number of calls made on a manager while its registry is built
MaxOps == 4

----------------------------------------------------------------------------
(* Texts *)

NL == "\n"
CR == "\r"

\* number of spaces of one indentation level (CodeWriter::new)
IndentSize == 4

\* the text of IndentSize spaces
IndentUnit == "    "

EmptyMap == [k \in {} |-> <<>>]

\* an insert that keeps the entry a key already has
Insert_keeps_first(m, k, v) ==
  IF k \in DOMAIN m THEN m
  ELSE [x \in (DOMAIN m) \cup {k} |-> IF x = k THEN v ELSE m[x]]

\* HashMap::insert
Insert(m, k, v) == [x \in (DOMAIN m) \cup {k} |-> IF x = k THEN v ELSE m[x]]

Min(S) == CHOOSE x \in S : \A y \in S : x <= y

\* Option<String>
None == [some |-> FALSE, val |-> <<>>]
Some(v) == [some |-> TRUE, val |-> v]

\* str::ends_with('\n')
ends_with_newline(s) == Len(s) > 0 /\ s[Len(s)] = NL

\* the line without the "\r" that str::lines strips with the "\n"
StripCR(l) == IF Len(l) > 0 /\ l[Len(l)] = CR THEN SubSeq(l, 1, Len(l) - 1) ELSE l

\* str::lines: the lines of s, split at each "\n" (a "\r" before it is stripped
\* with it); the line ending of the last line is optional
str_lines(s) ==
  LET nls == {i \in 1..Len(s) : s[i] = NL}
      count == Cardinality(nls) + (IF Len(s) > 0 /\ s[Len(s)] # NL THEN 1 ELSE 0)
      \* the position of the k-th newline; past the last one, the end of s
      stop(k) == IF k = 0 THEN 0
                 ELSE IF k > Cardinality(nls) THEN Len(s) + 1
                 ELSE CHOOSE i \in nls : Cardinality({j \in nls : j < i}) = k - 1
  IN [k \in 1..count |-> StripCR(SubSeq(s, stop(k - 1) + 1, stop(k) - 1))]

\* the text whose lines are ls, each ended by a newline
RECURSIVE unlines(_)
unlines(ls) == IF ls = <<>> THEN <<>> ELSE Head(ls) \o <<NL>> \o unlines(Tail(ls))

----------------------------------------------------------------------------
(* Marker grammar: the four regular expressions of capture_from_string *)

\* the \w+ names the model uses
Names == {"X", "Y"}

\* the digits of 2^32, the least number a u32 cannot hold
Overflow == "4294967296"

\* the \d+ digit strings the model uses
DigitStrings == {"0", "1", "2", "3", "01", "02", Overflow}

ParseError == -1

\* str::parse::<u32> of a digit string: its value, or ParseError
ParseU32(d) ==
  CASE d = "0" -> 0
    [] d = "1" -> 1
    [] d = "01" -> 1
    [] d = "2" -> 2
    [] d = "02" -> 2
    [] d = "3" -> 3
    [] OTHER -> ParseError

\* u32::to_string, which format!("{}", n) uses too
U32ToString(n) ==
  CASE n = 0 -> "0"
    [] n = 1 -> "1"
    [] n = 2 -> "2"
    [] n = 3 -> "3"

BeginMarker(name) == "/* USER CODE BEGIN " \o name \o " */"
EndMarker(name) == "/* USER CODE END " \o name \o " */"
PartialBeginMarker(digits) == "//!begin " \o digits
PartialEndMarker(digits) == "//!end " \o digits

NoMatch == ""

\* capture group 1 of the match atom a holds for a pattern, or NoMatch
begin_of(a) ==
  IF \E n \in Names : a = BeginMarker(n)
  THEN CHOOSE n \in Names : a = BeginMarker(n) ELSE NoMatch
\* an end pattern that knows the name X only
end_of_X_only(a) == IF a = EndMarker("X") THEN "X" ELSE NoMatch
end_of(a) ==
  IF \E n \in Names : a = EndMarker(n)
  THEN CHOOSE n \in Names : a = EndMarker(n) ELSE NoMatch
partial_begin_of(a) ==
  IF \E d \in DigitStrings : a = PartialBeginMarker(d)
  THEN CHOOSE d \in DigitStrings : a = PartialBeginMarker(d) ELSE NoMatch
partial_end_of(a) ==
  IF \E d \in DigitStrings : a = PartialEndMarker(d)
  THEN CHOOSE d \in DigitStrings : a = PartialEndMarker(d) ELSE NoMatch

group_of(pattern, a) ==
  CASE pattern = "begin" -> begin_of(a)
    [] pattern = "end" -> end_of(a)
    [] pattern = "partial_begin" -> partial_begin_of(a)
    [] pattern = "partial_end" -> partial_end_of(a)

\* Regex::captures: capture group 1 of the first match of a pattern in a line, or
\* NoMatch (the patterns are not anchored: they match anywhere in the line)
Captures(pattern, line) ==
  LET hits == {i \in 1..Len(line) : group_of(pattern, line[i]) # NoMatch}
  IN IF hits = {} THEN NoMatch ELSE group_of(pattern, line[Min(hits)])

\* a begin pattern that gives way to an end marker on the same line
begin_pattern_unless_end(line) ==
  IF Captures("end", line) # NoMatch THEN NoMatch ELSE Captures("begin", line)

begin_pattern(line) == Captures("begin", line)
end_pattern(line) == Captures("end", line)
partial_begin_pattern(line) == Captures("partial_begin", line)
partial_end_pattern(line) == Captures("partial_end", line)

----------------------------------------------------------------------------
(* Results: Ok or a CodeGenError *)

Res(tag, line, section, expected, found) ==
  [tag |-> tag, line |-> line, section |-> section, expected |-> expected, found |-> found]

Ok == Res("Ok", 0, "", "", "")
NoResult == Res("None", 0, "", "", "")
\* an unwrap() of a failed parse aborts the call
Panic == Res("Panic", 0, "", "", "")
IoError == Res("Io", 0, "", "", "")
\* a NestedSection that does not carry the line
NestedSection_no_line(line, section) == Res("NestedSection", 0, section, "", "")
\* NestedSection { line, section }
NestedSection(line, section) == Res("NestedSection", line, section, "", "")
MismatchedSection_swapped(line, expected, found) ==
  Res("MismatchedSection", line, "", found, expected)
MismatchedSection(line, expected, found) == Res("MismatchedSection", line, "", expected, found)
\* an InvalidSection whose message does not name the line
InvalidSection_no_line(kind, line, found) == Res("InvalidSection", 0, kind, "", found)
\* InvalidSection(String): the message names the kind, the line and the identity found
InvalidSection(kind, line, found) == Res("InvalidSection", line, kind, "", found)
UnclosedSection(section) == Res("UnclosedSection", 0, section, "", "")
UnknownSection(name) == Res("UnknownSection", 0, name, "", "")
\* CaptureFailed { path, source }
CaptureFailed(path) == Res("CaptureFailed", 0, path, "", "")

----------------------------------------------------------------------------
(* capture_from_string *)

\* Option<String> and Option<u32> of the scanner's locals
NoSection == ""
NoPartial == -1

\* the locals at the head of the loop, before the first line (lines 232-235)
ScanStart ==
  [pc |-> "loop", current_section |-> NoSection, current_partial |-> NoPartial,
   section_content |-> <<>>, line_number |-> 0]

\* a scanner: the locals, the two capture maps and the value returned (NoResult
\* while the loop runs)
Scanner(sc, cc, ps, res) == [sc |-> sc, cc |-> cc, ps |-> ps, res |-> res]

Failed(s, err) == [s EXCEPT !.res = err, !.sc.pc = "done"]

\* only an open named region counts as open
region_open_named_only(sc) == sc.current_section # NoSection

\* only an open partial region counts as open
region_open_partial_only(sc) == sc.current_partial # NoPartial

\* current_section.is_some() || current_partial.is_some()
region_open(sc) == sc.current_section # NoSection \/ sc.current_partial # NoPartial

\* line_number += 1
next_line_number(n) == n + 1

\* the line is appended without its newline
push_line_no_newline(section_content, line) == section_content \o line

\* section_content.push_str(line); section_content.push('\n')
push_line(section_content, line) == section_content \o line \o <<NL>>

\* one iteration of the loop over content.lines(), for the line `line`
ScanLine(s, line) ==
  LET sc == s.sc
      n == next_line_number(sc.line_number)
      open == region_open(sc)
      s1 == [s EXCEPT !.sc.line_number = n]
      pb == partial_begin_pattern(line)
      nb == begin_pattern(line)
      pe == partial_end_pattern(line)
      ne == end_pattern(line)
  IN IF pb # NoMatch THEN
       IF open THEN Failed(s1, NestedSection(n, "partial section " \o pb))
       ELSE IF ParseU32(pb) = ParseError THEN Failed(s1, Panic)
       ELSE [s1 EXCEPT !.sc.current_partial = ParseU32(pb), !.sc.section_content = <<>>]
     ELSE IF nb # NoMatch THEN
       IF open
       THEN Failed(s1, NestedSection(n,
              IF sc.current_section # NoSection THEN sc.current_section
              ELSE "partial " \o U32ToString(sc.current_partial)))
       ELSE [s1 EXCEPT !.sc.current_section = nb, !.sc.section_content = <<>>]
     ELSE IF pe # NoMatch THEN
       IF ParseU32(pe) = ParseError THEN Failed(s1, Panic)
       ELSE IF sc.current_partial # NoPartial THEN
         IF sc.current_partial # ParseU32(pe)
         THEN Failed(s1, MismatchedSection(n, U32ToString(sc.current_partial),
                                           U32ToString(ParseU32(pe))))
         ELSE [s1 EXCEPT !.ps = Insert(s.ps, sc.current_partial, sc.section_content),
                         !.sc.current_partial = NoPartial]
       ELSE Failed(s1, InvalidSection("partial", n, U32ToString(ParseU32(pe))))
     ELSE IF ne # NoMatch THEN
       IF sc.current_section # NoSection THEN
         IF sc.current_section # ne
         THEN Failed(s1, MismatchedSection(n, sc.current_section, ne))
         ELSE [s1 EXCEPT !.cc = Insert(s.cc, sc.current_section, sc.section_content),
                         !.sc.current_section = NoSection]
       ELSE Failed(s1, InvalidSection("user", n, ne))
     ELSE IF open
       THEN [s1 EXCEPT !.sc.section_content = push_line(@, line)]
       ELSE s1

\* the checks after the loop without the check of current_partial
ScanEnd_named_only(s) ==
  IF s.sc.current_section # NoSection
  THEN Failed(s, UnclosedSection(s.sc.current_section))
  ELSE [s EXCEPT !.res = Ok, !.sc.pc = "done"]

\* the checks after the loop
ScanEnd(s) ==
  IF s.sc.current_section # NoSection
  THEN Failed(s, UnclosedSection(s.sc.current_section))
  ELSE IF s.sc.current_partial # NoPartial
  THEN Failed(s, UnclosedSection("partial section " \o U32ToString(s.sc.current_partial)))
  ELSE [s EXCEPT !.res = Ok, !.sc.pc = "done"]

\* the loop from line i on
RECURSIVE ScanFrom(_, _, _)
ScanFrom(s, lines, i) ==
  IF s.sc.pc = "done" THEN s
  ELSE IF i > Len(lines) THEN ScanEnd(s)
  ELSE ScanFrom(ScanLine(s, lines[i]), lines, i + 1)

\* capture_from_string(content) on the capture maps cc and ps, as one step
capture_from_string(content, cc, ps) ==
  ScanFrom(Scanner(ScanStart, cc, ps, NoResult), str_lines(content), 1)

\* what a path holds when capture_from_file is called: no file, a file that
\* fs::read_to_string fails on, or a file with a text
Missing == [kind |-> "missing", content |-> <<>>]
Unreadable == [kind |-> "unreadable", content |-> <<>>]
Readable(content) == [kind |-> "readable", content |-> content]

\* a capture_from_file that reads a path that does not exist
capture_from_file_reads_missing(path, file, cc, ps) ==
  IF file.kind # "readable"
  THEN Failed(Scanner(ScanStart, cc, ps, NoResult), CaptureFailed(path))
  ELSE capture_from_string(file.content, cc, ps)

\* capture_from_file
capture_from_file(path, file, cc, ps) ==
  IF file.kind = "missing"
  THEN [Scanner(ScanStart, cc, ps, Ok) EXCEPT !.sc.pc = "done"]
  ELSE IF file.kind = "unreadable"
  THEN Failed(Scanner(ScanStart, cc, ps, NoResult), CaptureFailed(path))
  ELSE capture_from_string(file.content, cc, ps)

----------------------------------------------------------------------------
(* CodeWriter.  A writer in a call is the CodeWriter's fields with the state  *)
(* of the underlying std::io::Write: `left` is the number of write_all calls  *)
(* it still accepts (NoLimit: all of them), `err` that one has failed, after   *)
(* which the `?` of every caller returns and nothing more is written.          *)

\* CodeWriter::new
NewWriter == [out |-> <<>>, indent_level |-> 0, with_newline |-> TRUE]

NoLimit == -1

Open(w, left) == w @@ [left |-> left, err |-> FALSE]
Close(w) == [out |-> w.out, indent_level |-> w.indent_level, with_newline |-> w.with_newline]

\* Write::write_all, with map_err(CodeGenError::Io) and `?`
write_all(w, bytes) ==
  IF w.err \/ bytes = <<>> THEN w
  ELSE IF w.left = 0 THEN [w EXCEPT !.err = TRUE]
  ELSE [w EXCEPT !.out = @ \o bytes, !.left = IF @ = NoLimit THEN @ ELSE @ - 1]

\* utils::repeat_str
RECURSIVE repeat_str(_, _)
repeat_str(s, n) == IF n = 0 THEN <<>> ELSE s \o repeat_str(s, n - 1)

\* the loop of CodeWriter::write over content.lines(), from line i on
RECURSIVE write_lines(_, _, _)
write_lines(w, lines, i) ==
  IF i > Len(lines) THEN w
  ELSE LET w1 == IF i > 1 THEN write_all(w, <<NL>>) ELSE w
           w2 == IF lines[i] # <<>>
                 THEN write_all(write_all(w1, repeat_str(<<IndentUnit>>, w.indent_level)),
                                lines[i])
                 ELSE w1
       IN write_lines(w2, lines, i + 1)

\* CodeWriter::write
write(w, content) ==
  IF content = <<>>
  THEN IF w.with_newline THEN write_all(w, <<NL>>) ELSE w
  ELSE LET w1 == write_lines(w, str_lines(content), 1)
       IN IF w.with_newline /\ ~ends_with_newline(content)
          THEN write_all(w1, <<NL>>)
          ELSE w1

\* CodeWriter::writeln
writeln(w, content) ==
  [write([w EXCEPT !.with_newline = TRUE], content) EXCEPT !.with_newline = w.with_newline]

\* CodeWriter::newline
newline(w) == write_all(w, <<NL>>)

\* format!("/* {} */", title)
Comment(title) == <<"/* ">> \o title \o <<" */">>

\* CodeWriter::write_separator
write_separator(w, title) == writeln(w, Comment(title))

----------------------------------------------------------------------------
(* UserSectionManager: lookups and emission.  A manager is the record of its  *)
(* four fields; an emission returns the manager's written_sections, the       *)
(* writer and the result.                                                     *)

Manager == [sections |-> sections, captured_content |-> captured_content,
            partial_sections |-> partial_sections, written_sections |-> written_sections]

\* UserSection::new, ::with_description, ::with_default
UserSection(description, default_content) ==
  [description |-> description, default_content |-> default_content]

\* has_section
has_section(m, name) == name \in DOMAIN m.sections

\* is_section_written of a tracker that is never consulted
is_section_written_never(m, name) == FALSE

\* is_section_written
is_section_written(m, name) == name \in m.written_sections

\* a reset that leaves the tracker as it is
reset_written_tracker_keeps(written) == written

\* reset_written_tracker
reset_written_tracker(written) == {}

\* a clear that leaves the tracker as it is
clear_captured_content_keeps_tracker(m) ==
  [captured_content |-> EmptyMap, partial_sections |-> EmptyMap,
   written_sections |-> m.written_sections]

\* clear_captured_content: both maps are cleared and the tracker is reset
clear_captured_content(m) ==
  [captured_content |-> EmptyMap, partial_sections |-> EmptyMap,
   written_sections |-> reset_written_tracker(m.written_sections)]

\* mark_section_written
mark_section_written(written, name) == written \cup {name}

\* a definition that keeps the default content of the definition it replaces
define_section_keeps_default(secs, name) ==
  Insert(secs, name,
         UserSection(None, IF name \in DOMAIN secs THEN secs[name].default_content ELSE None))

\* define_section
define_section(secs, name) == Insert(secs, name, UserSection(None, None))

\* define_section_with_description
define_section_with_description(secs, name, description) ==
  Insert(secs, name, UserSection(Some(description), None))

\* define_section_with_default: the description is an Option
define_section_with_default(secs, name, description, default_content) ==
  Insert(secs, name, UserSection(description, Some(default_content)))

\* a lookup that prefers the default content to the captured content
get_section_content_default_first(m, name) ==
  IF name \in DOMAIN m.sections /\ m.sections[name].default_content.some
  THEN m.sections[name].default_content
  ELSE IF name \in DOMAIN m.captured_content THEN Some(m.captured_content[name])
  ELSE None

\* get_section_content
get_section_content(m, name) ==
  IF name \in DOMAIN m.captured_content THEN Some(m.captured_content[name])
  ELSE IF name \in DOMAIN m.sections THEN m.sections[name].default_content
  ELSE None

\* get_partial_section_content
get_partial_section_content(m, number) ==
  IF number \in DOMAIN m.partial_sections THEN Some(m.partial_sections[number]) ELSE None

\* Option::unwrap_or_default, Option::unwrap_or("")
unwrap_or_default(o) == IF o.some THEN o.val ELSE <<>>

Emitted(w, written, res) == [w |-> w, written |-> written, res |-> res]

\* the value an emission returns after its last write
Returned(w) == IF w.err THEN IoError ELSE Ok

\* lines 367-375: the content, and a newline when it does not end with one
write_content(w, content) ==
  IF content # <<>>
  THEN LET w1 == write(w, content)
       IN IF ~ends_with_newline(content) THEN newline(w1) ELSE w1
  ELSE w

\* lines 364-381: the begin marker, the content, the end marker and a newline
write_markers_and_content(m, w, name) ==
  LET w1 == writeln(w, <<BeginMarker(name)>>)
      w2 == write_content(w1, unwrap_or_default(get_section_content(m, name)))
      w3 == writeln(w2, <<EndMarker(name)>>)
  IN newline(w3)

\* write_section
write_section(m, w, name) ==
  IF ~has_section(m, name) THEN Emitted(w, m.written_sections, UnknownSection(name))
  ELSE LET section == m.sections[name]
           w1 == IF section.description.some
                 THEN write_separator(w, section.description.val)
                 ELSE w
       IN IF w1.err THEN Emitted(w1, m.written_sections, IoError)
          ELSE IF is_section_written(m, name) THEN Emitted(w1, m.written_sections, Ok)
          ELSE LET w2 == write_markers_and_content(m, w1, name)
               IN Emitted(w2, mark_section_written(m.written_sections, name), Returned(w2))

\* write_section_without_description
write_section_without_description(m, w, name) ==
  IF ~has_section(m, name) THEN Emitted(w, m.written_sections, UnknownSection(name))
  ELSE LET w1 == write_markers_and_content(m, w, name)
       IN Emitted(w1, m.written_sections, Returned(w1))

\* write_content_only without the lookup of its lines 483-485
write_content_only_unchecked(m, w, name) ==
  LET w1 == write_content(w, unwrap_or_default(get_section_content(m, name)))
  IN Emitted(w1, m.written_sections, Returned(w1))

\* write_content_only
write_content_only(m, w, name) ==
  IF ~has_section(m, name) THEN Emitted(w, m.written_sections, UnknownSection(name))
  ELSE LET w1 == write_content(w, unwrap_or_default(get_section_content(m, name)))
       IN Emitted(w1, m.written_sections, Returned(w1))

\* write_partial_section
write_partial_section(m, w, number, default_content) ==
  LET w1 == writeln(w, <<PartialBeginMarker(U32ToString(number))>>)
      w2 == IF number \in DOMAIN m.partial_sections
            THEN write(w1, m.partial_sections[number])
            ELSE IF default_content.some
            THEN LET w3 == write(w1, default_content.val)
                 IN IF ~ends_with_newline(default_content.val) THEN newline(w3) ELSE w3
            ELSE w1
      w4 == writeln(w2, <<PartialEndMarker(U32ToString(number))>>)
  IN Emitted(w4, m.written_sections, Returned(w4))

\* format!("Captured section '{}' has no definition", captured_name)
ValidateMessage(name) == "Captured section '" \o name \o "' has no definition"

\* a validation that accepts every capture
validate_accepts_all(m) == {Ok}

\* validate: the values it can return.  The loop runs over the keys of a HashMap,
\* whose order is not specified: the first key without a definition can be any of
\* them
validate(m) ==
  LET undefined == DOMAIN m.captured_content \ DOMAIN m.sections
  IN IF undefined = {} THEN {Ok}
     ELSE {UnknownSection(ValidateMessage(name)) : name \in undefined}

\* the value a lookup returns
Value(v) == [tag |-> "Value", val |-> v]

\* no pass is under way
NoPass == [n |-> 0, log |-> <<>>, results |-> <<>>, first |-> <<>>]

\* no call was made yet
NoCall == [op |-> "none", name |-> "", number |-> 0, default |-> None, seq |-> 0]

----------------------------------------------------------------------------
(* SpecScan: one capture_from_string call, one loop iteration per step.     *)
(* The loop reads its input front to back and never looks ahead, so the    *)
(* input is disclosed one line per iteration: scan.read is the text read   *)
(* so far, scan.lines the lines content.lines() has yielded from it, and   *)
(* the end of the input may come after any line.                           *)

\* the digit strings of the scanned inputs: "01" and "1" are one number
ScanDigits == {"1", "2", "01"}

\* the lines the scanned inputs are made of
ScanLines ==
  {<<>>, <<"a">>}
  \cup {<<BeginMarker(n)>> : n \in Names} \cup {<<EndMarker(n)>> : n \in Names}
  \cup {<<PartialBeginMarker(d)>> : d \in ScanDigits}
  \cup {<<PartialEndMarker(d)>> : d \in ScanDigits}

\* texts scanned before the call the specification follows
EarlierTexts ==
  {<<>>,
   unlines(<<<<BeginMarker("X")>>, <<"a">>, <<EndMarker("X")>>,
             <<PartialBeginMarker("2")>>, <<>>, <<PartialEndMarker("2")>>>>)}

\* the scan variable when no call runs
ScanIdle ==
  [ScanStart EXCEPT !.pc = "idle"]
    @@ [read |-> <<>>, lines |-> <<>>, cc0 |-> EmptyMap, ps0 |-> EmptyMap]

ScanInit ==
  /\ sections = EmptyMap
  /\ \E t \in EarlierTexts :
       LET s == capture_from_string(t, EmptyMap, EmptyMap)
       IN captured_content = s.cc /\ partial_sections = s.ps
  /\ written_sections = {}
  /\ writer = NewWriter
  /\ scan = ScanIdle
  /\ call = NoCall
  /\ result = NoResult
  /\ pass = NoPass

\* the call: the locals are initialised; cc0 and ps0 keep the capture maps as they
\* are at the call
CaptureStart ==
  /\ scan.pc = "idle"
  /\ scan' = ScanStart @@ [read |-> <<>>, lines |-> <<>>,
                           cc0 |-> captured_content, ps0 |-> partial_sections]
  /\ call' = [NoCall EXCEPT !.op = "capture_from_string"]
  /\ result' = NoResult
  /\ UNCHANGED <<sections, captured_content, partial_sections, written_sections, writer,
                 pass>>

\* the scanner of the running call
Running == Scanner(scan, captured_content, partial_sections, result)

Resume(s) ==
  /\ scan' = s.sc
  /\ captured_content' = s.cc
  /\ partial_sections' = s.ps
  /\ result' = s.res
  /\ UNCHANGED <<sections, written_sections, writer, call, pass>>

\* one iteration of the loop, for the next line of the input
CaptureLineOf(Lines) ==
  /\ scan.pc = "loop"
  /\ scan.line_number < MaxLines
  /\ \E line \in Lines :
       LET read == scan.read \o line \o <<NL>>
           lines == str_lines(read)
       IN Resume(ScanLine([Running EXCEPT !.sc.read = read, !.sc.lines = lines],
                          lines[Len(lines)]))

CaptureLine == CaptureLineOf(ScanLines)

\* the end of the input
CaptureEnd ==
  /\ scan.pc = "loop"
  /\ Resume(ScanEnd(Running))

ScanNext == CaptureStart \/ CaptureLine \/ CaptureEnd

SpecScan == ScanInit /\ [][ScanNext]_vars

----------------------------------------------------------------------------
(* SpecTokens: the scan of SpecScan on lines that hold more than a marker:  *)
(* a marker after whitespace, a marker next to code, two markers.           *)

TokenLines ==
  {<<"a">>,
   <<BeginMarker("X")>>, <<EndMarker("X")>>, <<EndMarker("Y")>>,
   <<PartialBeginMarker("1")>>, <<PartialEndMarker("1")>>,
   <<IndentUnit, BeginMarker("X")>>,
   <<"a", EndMarker("X")>>,
   <<PartialBeginMarker("1"), "a">>,
   <<BeginMarker("X"), EndMarker("X")>>,
   <<EndMarker("X"), PartialBeginMarker("1")>>,
   <<PartialEndMarker("1"), EndMarker("X")>>}

CaptureTokenLine == CaptureLineOf(TokenLines)

TokensNext == CaptureStart \/ CaptureTokenLine \/ CaptureEnd

SpecTokens == ScanInit /\ [][TokensNext]_vars

----------------------------------------------------------------------------
(* SpecDigits: the scan of SpecScan on partial markers whose digit strings    *)
(* are numerically equal ("1", "01") or exceed a u32.                         *)

DigitLines ==
  {<<"a">>, <<BeginMarker("X")>>, <<EndMarker("X")>>}
  \cup {<<PartialBeginMarker(d)>> : d \in {"1", "01", Overflow}}
  \cup {<<PartialEndMarker(d)>> : d \in {"1", "01", Overflow}}

CaptureDigitLine == CaptureLineOf(DigitLines)

DigitsNext == CaptureStart \/ CaptureDigitLine \/ CaptureEnd

SpecDigits == ScanInit /\ [][DigitsNext]_vars

----------------------------------------------------------------------------
(* Spec: a manager with its regions defined, and the calls of a generator on *)
(* it: scans of earlier output, emissions, resets of the tracker.            *)

\* the definitions a region is given: define_section, define_section_with_description
\* and define_section_with_default, the default with and without its last newline
Definitions ==
  {UserSection(d, c) :
     d \in {None, Some(<<"File header">>)},
     c \in {None, Some(<<"a", NL>>), Some(<<"a">>)}}

\* the registries: X defined in any way or not at all, Y with a description and a
\* default or not at all
Registries ==
  {EmptyMap}
  \cup {[n \in {"X"} |-> x] : x \in Definitions}
  \cup {[n \in {"Y"} |-> UserSection(Some(<<"File header">>), Some(<<"a", NL>>))]}
  \cup {[n \in {"X", "Y"} |->
          IF n = "X" THEN x ELSE UserSection(Some(<<"File header">>), Some(<<"a", NL>>))] :
        x \in Definitions}

\* a named region and a partial region with the same lines between their markers
RegionsText(name, number, body) ==
  unlines(<<<<BeginMarker(name)>>>> \o body \o <<<<EndMarker(name)>>>>
          \o <<<<PartialBeginMarker(U32ToString(number))>>>> \o body
          \o <<<<PartialEndMarker(U32ToString(number))>>>>)

\* the earlier outputs a generator scans: regions that hold no line, one line,
\* several lines
CaptureTexts ==
  {RegionsText("X", 1, <<>>),
   RegionsText("X", 1, <<<<"a">>>>),
   RegionsText("Y", 2, <<<<"a">>, <<"b">>>>)}

\* the inline defaults of write_partial_section
InlineDefaults == {None, Some(<<"c">>), Some(<<"c", NL>>)}

Init ==
  /\ sections \in Registries
  /\ captured_content = EmptyMap
  /\ partial_sections = EmptyMap
  /\ written_sections = {}
  /\ writer = NewWriter
  /\ scan = ScanIdle
  /\ call = NoCall
  /\ result = NoResult
  /\ pass = NoPass

Called(op, name, number, default) ==
  call' = [op |-> op, name |-> name, number |-> number, default |-> default,
           seq |-> call.seq + 1]

\* capture_from_string(content)
CaptureFromString(content) ==
  /\ call.seq < MaxCalls
  /\ LET s == capture_from_string(content, captured_content, partial_sections)
     IN /\ captured_content' = s.cc
        /\ partial_sections' = s.ps
        /\ result' = s.res
  /\ Called("capture_from_string", "", 0, None)
  /\ UNCHANGED <<sections, written_sections, writer, scan, pass>>

\* the effect of an emission e on the manager and the writer
Emit(e) ==
  /\ writer' = Close(e.w)
  /\ written_sections' = e.written
  /\ result' = e.res
  /\ UNCHANGED <<sections, captured_content, partial_sections, scan>>

\* the emission call c = [op, name, number, default] on manager m and writer w
Emission(m, w, c) ==
  CASE c.op = "write_section" -> write_section(m, w, c.name)
    [] c.op = "write_section_without_description" ->
         write_section_without_description(m, w, c.name)
    [] c.op = "write_content_only" -> write_content_only(m, w, c.name)
    [] c.op = "write_partial_section" -> write_partial_section(m, w, c.number, c.default)

EmissionCall(op, name, number, default) ==
  [op |-> op, name |-> name, number |-> number, default |-> default]

\* the emission calls a generator makes
NamedEmissions(op) == {EmissionCall(op, name, 0, None) : name \in Names}
PartialEmissions ==
  {EmissionCall("write_partial_section", "", number, default) :
     number \in {1, 2}, default \in InlineDefaults}

\* the emission call c, made while the underlying writer accepts `left` more
\* write_all calls
Write(c, left) ==
  /\ call.seq < MaxCalls
  /\ Emit(Emission(Manager, Open(writer, left), c))
  /\ Called(c.op, c.name, c.number, c.default)
  /\ UNCHANGED pass

WriteSection(left) == \E c \in NamedEmissions("write_section") : Write(c, left)
WriteSectionWithoutDescription(left) ==
  \E c \in NamedEmissions("write_section_without_description") : Write(c, left)
WriteContentOnly(left) == \E c \in NamedEmissions("write_content_only") : Write(c, left)
WritePartialSection(left) == \E c \in PartialEmissions : Write(c, left)

\* reset_written_tracker
ResetWrittenTracker ==
  /\ call.seq < MaxCalls
  /\ written_sections' = reset_written_tracker(written_sections)
  /\ result' = Ok
  /\ Called("reset_written_tracker", "", 0, None)
  /\ UNCHANGED <<sections, captured_content, partial_sections, writer, scan, pass>>

\* clear_captured_content
ClearCapturedContent ==
  /\ call.seq < MaxCalls
  /\ LET m == clear_captured_content(Manager)
     IN /\ captured_content' = m.captured_content
        /\ partial_sections' = m.partial_sections
        /\ written_sections' = m.written_sections
  /\ result' = Ok
  /\ Called("clear_captured_content", "", 0, None)
  /\ UNCHANGED <<sections, writer, scan, pass>>

Next ==
  \/ \E content \in CaptureTexts : CaptureFromString(content)
  \/ WriteSection(NoLimit)
  \/ WriteSectionWithoutDescription(NoLimit)
  \/ WriteContentOnly(NoLimit)
  \/ WritePartialSection(NoLimit)
  \/ ResetWrittenTracker
  \/ ClearCapturedContent

Spec == Init /\ [][Next]_vars

----------------------------------------------------------------------------
(* SpecFile: a generator that captures from the file it is about to          *)
(* regenerate, which may not exist yet or may not be readable, and emits.    *)
(* call.name is the path of the call and call.file what the path held.       *)

OutputPath == "out.c"

\* what the path can hold
Files == {Missing, Unreadable} \cup {Readable(t) : t \in CaptureTexts}

\* capture_from_file(path)
CaptureFromFile ==
  /\ call.seq < MaxCalls
  /\ \E file \in Files :
       /\ LET s == capture_from_file(OutputPath, file, captured_content, partial_sections)
          IN /\ captured_content' = s.cc
             /\ partial_sections' = s.ps
             /\ result' = s.res
       /\ call' = [op |-> "capture_from_file", name |-> OutputPath, number |-> 0,
                   default |-> None, seq |-> call.seq + 1, file |-> file]
  /\ UNCHANGED <<sections, written_sections, writer, scan, pass>>

FileNext == CaptureFromFile \/ WriteSection(NoLimit) \/ WritePartialSection(NoLimit)

SpecFile == Init /\ [][FileNext]_vars

----------------------------------------------------------------------------
(* SpecFailing: write_section on a writer whose underlying std::io::Write     *)
(* fails after a number of write_all calls, with scans and resets in between. *)

\* the largest number of write_all calls a failing writer accepts
MaxAccepted == 4

\* the writers of a call: one that never fails, and those that fail after
\* accepting 0..MaxAccepted write_all calls
WriterLimits == {NoLimit} \cup (0..MaxAccepted)

\* write_section(writer, name) on a writer that accepts `left` write_all calls
WriteSectionOnFailingWriter ==
  /\ call.seq < MaxCalls
  /\ \E c \in NamedEmissions("write_section"), left \in WriterLimits :
       /\ Emit(Emission(Manager, Open(writer, left), c))
       /\ call' = [op |-> c.op, name |-> c.name, number |-> c.number,
                   default |-> c.default, seq |-> call.seq + 1, left |-> left]
  /\ UNCHANGED pass

FailingNext ==
  \/ \E content \in CaptureTexts : CaptureFromString(content)
  \/ WriteSectionOnFailingWriter
  \/ ResetWrittenTracker

SpecFailing == Init /\ [][FailingNext]_vars

----------------------------------------------------------------------------
(* SpecRound: a generator that regenerates its own output.  The first pass  *)
(* emits on a fresh manager, the output is scanned, the tracker is reset    *)
(* and the second pass makes the calls of the first on a new writer.        *)
(* pass.n is the stage: 1 the first pass, 2 its output scanned, 3 the       *)
(* second pass; pass.log the emission calls of the first pass, pass.results *)
(* what the calls of the current pass returned, pass.first the output of    *)
(* the first pass.                                                          *)

\* the emission calls of a pass
RoundEmissions ==
  NamedEmissions("write_section")
  \cup NamedEmissions("write_section_without_description")
  \cup NamedEmissions("write_content_only")
  \cup {c \in PartialEmissions : c.number = 1 /\ c.default \in {None, Some(<<"c", NL>>)}}

RoundInit ==
  /\ sections \in Registries
  /\ captured_content = EmptyMap
  /\ partial_sections = EmptyMap
  /\ written_sections = {}
  /\ writer = NewWriter
  /\ scan = ScanIdle
  /\ call = NoCall
  /\ result = NoResult
  /\ pass = [NoPass EXCEPT !.n = 1]

\* the emission call c of a pass
PassEmit(c) ==
  LET e == Emission(Manager, Open(writer, NoLimit), c)
  IN /\ Emit(e)
     /\ Called(c.op, c.name, c.number, c.default)
     /\ pass' = [pass EXCEPT !.results = Append(@, e.res),
                             !.log = IF pass.n = 1 THEN Append(@, c) ELSE @]

\* a call of the first pass
FirstPass ==
  /\ pass.n = 1
  /\ Len(pass.log) < MaxEmissions
  /\ \E c \in RoundEmissions : PassEmit(c)

\* the output of the first pass is scanned: capture_from_string
ScanFirst ==
  /\ pass.n = 1
  /\ LET s == capture_from_string(writer.out, captured_content, partial_sections)
     IN /\ captured_content' = s.cc
        /\ partial_sections' = s.ps
        /\ result' = s.res
  /\ Called("capture_from_string", "", 0, None)
  /\ pass' = [pass EXCEPT !.n = 2, !.first = writer.out]
  /\ UNCHANGED <<sections, written_sections, writer, scan>>

\* reset_written_tracker, and CodeWriter::new for the second output
StartSecond ==
  /\ pass.n = 2
  /\ result.tag = "Ok"
  /\ written_sections' = reset_written_tracker(written_sections)
  /\ writer' = NewWriter
  /\ result' = Ok
  /\ Called("reset_written_tracker", "", 0, None)
  /\ pass' = [pass EXCEPT !.n = 3, !.results = <<>>]
  /\ UNCHANGED <<sections, captured_content, partial_sections, scan>>

\* the next call of the second pass
SecondPass ==
  /\ pass.n = 3
  /\ Len(pass.results) < Len(pass.log)
  /\ PassEmit(pass.log[Len(pass.results) + 1])

RoundNext == FirstPass \/ ScanFirst \/ StartSecond \/ SecondPass

SpecRound == RoundInit /\ [][RoundNext]_vars

----------------------------------------------------------------------------
(* SpecRegistry: a manager from UserSectionManager::new on, while its       *)
(* regions are defined and redefined, earlier output is scanned, regions    *)
(* are emitted, contents are looked up and the captures are validated.      *)
(* pass.log is the sequence of the calls made, with their arguments.        *)

\* a call with its arguments
Op(op, name, number, description, default) ==
  [op |-> op, name |-> name, number |-> number, description |-> description,
   default |-> default]

\* the definitions the generator makes
DefineCalls ==
  {Op("define_section", "X", 0, None, None),
   Op("define_section_with_description", "X", 0, Some(<<"File header">>), None),
   Op("define_section_with_default", "X", 0, None, Some(<<"a", NL>>)),
   Op("define_section_with_default", "X", 0, Some(<<"File header">>), Some(<<"a">>)),
   Op("define_section_with_description", "Y", 0, Some(<<"File header">>), None)}

\* the lookups the generator makes
LookupCalls ==
  {Op("get_section_content", name, 0, None, None) : name \in Names}
  \cup {Op("get_partial_section_content", "", number, None, None) : number \in {1, 3}}

\* the earlier outputs the generator scans
RegistryTexts == {RegionsText("X", 1, <<>>), RegionsText("Y", 2, <<<<"a">>, <<"b">>>>)}

RegistryInit ==
  /\ sections = EmptyMap
  /\ captured_content = EmptyMap
  /\ partial_sections = EmptyMap
  /\ written_sections = {}
  /\ writer = NewWriter
  /\ scan = ScanIdle
  /\ call = NoCall
  /\ result = NoResult
  /\ pass = NoPass

\* the call c is made and logged
Logged(c) ==
  /\ call.seq < MaxOps
  /\ Called(c.op, c.name, c.number, c.default)
  /\ pass' = [pass EXCEPT !.log = Append(@, c)]

\* define_section, define_section_with_description, define_section_with_default
Define ==
  \E c \in DefineCalls :
    /\ Logged(c)
    /\ sections' =
         CASE c.op = "define_section" -> define_section(sections, c.name)
           [] c.op = "define_section_with_description" ->
                define_section_with_description(sections, c.name, c.description.val)
           [] c.op = "define_section_with_default" ->
                define_section_with_default(sections, c.name, c.description, c.default.val)
    /\ result' = Ok
    /\ UNCHANGED <<captured_content, partial_sections, written_sections, writer, scan>>

\* capture_from_string
RegistryCapture ==
  \E content \in RegistryTexts :
    /\ Logged(Op("capture_from_string", "", 0, None, None))
    /\ LET s == capture_from_string(content, captured_content, partial_sections)
       IN /\ captured_content' = s.cc
          /\ partial_sections' = s.ps
          /\ result' = s.res
    /\ UNCHANGED <<sections, written_sections, writer, scan>>

\* write_section
RegistryWrite ==
  /\ Logged(Op("write_section", "X", 0, None, None))
  /\ Emit(write_section(Manager, Open(writer, NoLimit), "X"))

\* get_section_content, get_partial_section_content
Lookup ==
  \E c \in LookupCalls :
    /\ Logged(c)
    /\ result' = Value(IF c.op = "get_section_content"
                       THEN get_section_content(Manager, c.name)
                       ELSE get_partial_section_content(Manager, c.number))
    /\ UNCHANGED <<sections, captured_content, partial_sections, written_sections,
                   writer, scan>>

\* validate
Validate ==
  /\ Logged(Op("validate", "", 0, None, None))
  /\ result' \in validate(Manager)
  /\ UNCHANGED <<sections, captured_content, partial_sections, written_sections,
                 writer, scan>>

RegistryNext == Define \/ RegistryCapture \/ RegistryWrite \/ Lookup \/ Validate

SpecRegistry == RegistryInit /\ [][RegistryNext]_vars

----------------------------------------------------------------------------
(* The input of a scan, read independently of the scanner *)

\* has_partial_section
has_partial_section(number) == number \in DOMAIN partial_sections

\* the lines read so far
ReadLines == scan.lines

IsBeginLine(l) == begin_pattern(l) # NoMatch \/ partial_begin_pattern(l) # NoMatch
IsEndLine(l) == end_pattern(l) # NoMatch \/ partial_end_pattern(l) # NoMatch
IsMarkerLine(l) == IsBeginLine(l) \/ IsEndLine(l)

\* the end marker line e carries the identity of the begin marker line b
Closes(b, e) ==
  \/ begin_pattern(b) # NoMatch /\ end_pattern(e) = begin_pattern(b)
  \/ /\ partial_begin_pattern(b) # NoMatch
     /\ partial_end_pattern(e) # NoMatch
     /\ ParseU32(partial_end_pattern(e)) = ParseU32(partial_begin_pattern(b))

\* lines i and j of L are the begin and the end marker line of one region
IsRegion(L, i, j) ==
  /\ i < j
  /\ IsBeginLine(L[i])
  /\ Closes(L[i], L[j])
  /\ \A k \in (i + 1)..(j - 1) : ~IsMarkerLine(L[k])

RegionsOf(L) == {r \in (1..Len(L)) \X (1..Len(L)) : IsRegion(L, r[1], r[2])}

\* every region is opened and closed by matching markers, and no marker line
\* occurs inside a region
RECURSIVE WellFormedFrom(_, _)
WellFormedFrom(L, i) ==
  IF i > Len(L) THEN TRUE
  ELSE IF ~IsMarkerLine(L[i]) THEN WellFormedFrom(L, i + 1)
  ELSE \E j \in (i + 1)..Len(L) : IsRegion(L, i, j) /\ WellFormedFrom(L, j + 1)

WellFormed(L) == WellFormedFrom(L, 1)

\* the lines strictly between lines i and j, each followed by one newline
Body(L, i, j) == unlines(SubSeq(L, i + 1, j - 1))

SameIdentity(b1, b2) ==
  \/ begin_pattern(b1) # NoMatch /\ begin_pattern(b1) = begin_pattern(b2)
  \/ /\ partial_begin_pattern(b1) # NoMatch
     /\ partial_begin_pattern(b2) # NoMatch
     /\ ParseU32(partial_begin_pattern(b1)) = ParseU32(partial_begin_pattern(b2))

\* the store holds exactly `text` for the region that line b begins
StoredAs(b, text) ==
  IF begin_pattern(b) # NoMatch
  THEN /\ begin_pattern(b) \in DOMAIN captured_content
       /\ captured_content[begin_pattern(b)] = text
  ELSE /\ has_partial_section(ParseU32(partial_begin_pattern(b)))
       /\ partial_sections[ParseU32(partial_begin_pattern(b))] = text

\* every entry of the capture maps is a region of L or was there before the call
NothingElseStored(L) ==
  /\ \A n \in DOMAIN captured_content :
       \/ \E r \in RegionsOf(L) : begin_pattern(L[r[1]]) = n
       \/ n \in DOMAIN scan.cc0 /\ captured_content[n] = scan.cc0[n]
  /\ \A k \in DOMAIN partial_sections :
       \/ \E r \in RegionsOf(L) :
            /\ partial_begin_pattern(L[r[1]]) # NoMatch
            /\ ParseU32(partial_begin_pattern(L[r[1]])) = k
       \/ k \in DOMAIN scan.ps0 /\ partial_sections[k] = scan.ps0[k]

\* C1 as stated: after the scan of a well-formed input the call has succeeded and
\* the store holds, for every region of the input, exactly the lines between its
\* marker lines, each followed by a newline; nothing else was stored, so a number
\* that is in no region of the input and was not captured before the call is absent
C1_EveryRegionStored ==
  (scan.pc = "done" /\ WellFormed(ReadLines)) =>
     /\ result = Ok
     /\ \A r \in RegionsOf(ReadLines) :
          StoredAs(ReadLines[r[1]], Body(ReadLines, r[1], r[2]))
     /\ NothingElseStored(ReadLines)

\* region r is the last region of L with its identity
IsLastOfIdentity(L, r) ==
  \A q \in RegionsOf(L) : SameIdentity(L[q[1]], L[r[1]]) => q[1] <= r[1]

\* C1 amended: as C1, for the last region of each name and of each number: when two
\* regions of one input carry the same identity, the store holds the lines of the
\* later one
C1_LastRegionStored ==
  (scan.pc = "done" /\ WellFormed(ReadLines)) =>
     /\ result = Ok
     /\ \A r \in RegionsOf(ReadLines) :
          IsLastOfIdentity(ReadLines, r) =>
            StoredAs(ReadLines[r[1]], Body(ReadLines, r[1], r[2]))
     /\ NothingElseStored(ReadLines)

\* a well-formed input was scanned: a named region and a partial region with a
\* line in it; number 1 is absent
C1_Witness ==
  /\ scan.pc = "done" /\ result = Ok /\ WellFormed(ReadLines)
  /\ Len(ReadLines) = 5
  /\ \E r \in RegionsOf(ReadLines) : begin_pattern(ReadLines[r[1]]) = "Y"
  /\ \E r \in RegionsOf(ReadLines) :
       partial_begin_pattern(ReadLines[r[1]]) = "2" /\ r[2] - r[1] = 2
  /\ ~has_partial_section(1)

----------------------------------------------------------------------------
(* Steps of a scan *)

Max(S) == CHOOSE x \in S : \A y \in S : y <= x

\* the index of the begin marker line of the region that is open after the lines L
\* were read without an error, 0 when none is: a region is open exactly when the
\* last marker line read is a begin marker line
OpenIndex(L) ==
  LET ms == {i \in 1..Len(L) : IsMarkerLine(L[i])}
  IN IF ms # {} /\ IsBeginLine(L[Max(ms)]) THEN Max(ms) ELSE 0

\* the identity of the region line b begins, as a string
IdentityOfBegin(b) ==
  IF begin_pattern(b) # NoMatch THEN begin_pattern(b)
  ELSE U32ToString(ParseU32(partial_begin_pattern(b)))

\* the identity the end marker line e carries, as a string
IdentityOfEnd(e) ==
  IF end_pattern(e) # NoMatch THEN end_pattern(e)
  ELSE U32ToString(ParseU32(partial_end_pattern(e)))

\* this step is one iteration of the loop: it reads the last line of ReadLines'
LineStep == scan.pc = "loop" /\ scan'.line_number # scan.line_number

\* this step is the end of the input
EndStep == scan.pc = "loop" /\ scan'.pc = "done" /\ scan'.line_number = scan.line_number

StoreUnchanged ==
  captured_content' = captured_content /\ partial_sections' = partial_sections

\* C8: a begin marker line (named or partial) read while a region is open makes
\* the call fail with NestedSection, whose line is the 1-based number of that
\* line; a begin marker line opens a region only when none is open
C8_NestingRejected ==
  [][(LineStep /\ IsBeginLine(ReadLines'[Len(ReadLines')])) =>
       IF OpenIndex(ReadLines) # 0
       THEN /\ scan'.pc = "done"
            /\ result'.tag = "NestedSection"
            /\ result'.line = Len(ReadLines')
            /\ StoreUnchanged
       ELSE /\ scan'.pc = "loop"
            /\ result' = NoResult
            /\ OpenIndex(ReadLines') = Len(ReadLines')]_vars

\* a partial region was open at line 2 and a named begin marker was read at line 3
C8_Witness ==
  /\ scan.pc = "done" /\ result.tag = "NestedSection" /\ result.line = 3
  /\ Len(ReadLines) = 3
  /\ partial_begin_pattern(ReadLines[1]) # NoMatch
  /\ ~IsMarkerLine(ReadLines[2])
  /\ begin_pattern(ReadLines[3]) # NoMatch

\* the end marker line e is of the kind of the region that line b begins, with
\* another identity
Mismatches(b, e) ==
  \/ /\ begin_pattern(b) # NoMatch /\ end_pattern(e) # NoMatch
     /\ end_pattern(e) # begin_pattern(b)
  \/ /\ partial_begin_pattern(b) # NoMatch /\ partial_end_pattern(e) # NoMatch
     /\ ParseU32(partial_end_pattern(e)) # ParseU32(partial_begin_pattern(b))

\* C9: an end marker line of the kind of the open region that carries another
\* identity makes the call fail with MismatchedSection: expected is the identity of
\* the open region, found the identity of the end marker, line the 1-based number
\* of the end marker line; nothing is committed
C9_MismatchRejected ==
  [][(/\ LineStep
      /\ OpenIndex(ReadLines) # 0
      /\ Mismatches(ReadLines[OpenIndex(ReadLines)], ReadLines'[Len(ReadLines')])) =>
       /\ scan'.pc = "done"
       /\ result'.tag = "MismatchedSection"
       /\ result'.line = Len(ReadLines')
       /\ result'.expected = IdentityOfBegin(ReadLines[OpenIndex(ReadLines)])
       /\ result'.found = IdentityOfEnd(ReadLines'[Len(ReadLines')])
       /\ StoreUnchanged]_vars

\* partial region 2 was open with a line in it and "//!end 01" was read at line 3:
\* expected "2", found "1"
C9_Witness ==
  /\ scan.pc = "done"
  /\ result.tag = "MismatchedSection" /\ result.line = 3
  /\ result.expected = "2" /\ result.found = "1"
  /\ ReadLines = <<<<PartialBeginMarker("2")>>, <<"a">>, <<PartialEndMarker("01")>>>>

\* C10: at the end of the input the call succeeds exactly when no region is open;
\* an open named region gives UnclosedSection with its name, an open partial
\* region n gives UnclosedSection with "partial section n"; the call succeeds in
\* no other way, so not after a line that raised an error
C10_UnclosedRejected ==
  [][/\ EndStep =>
          LET b == OpenIndex(ReadLines)
          IN /\ (result' = Ok) <=> (b = 0)
             /\ (b # 0 /\ begin_pattern(ReadLines[b]) # NoMatch) =>
                  /\ result'.tag = "UnclosedSection"
                  /\ result'.section = begin_pattern(ReadLines[b])
             /\ (b # 0 /\ partial_begin_pattern(ReadLines[b]) # NoMatch) =>
                  /\ result'.tag = "UnclosedSection"
                  /\ result'.section = "partial section "
                       \o U32ToString(ParseU32(partial_begin_pattern(ReadLines[b])))
     /\ (result' = Ok /\ result # Ok) => EndStep]_vars

\* the input "//!begin 01", "a" ended with partial region 1 open
C10_Witness ==
  /\ scan.pc = "done"
  /\ result.tag = "UnclosedSection" /\ result.section = "partial section 1"
  /\ ReadLines = <<<<PartialBeginMarker("01")>>, <<"a">>>>

\* C11: a partial-end or named-end marker line read while no region is open makes
\* the call fail with InvalidSection; the error carries the 1-based number of the
\* line and the identity found in the end marker; nothing is committed
C11_OrphanEndRejected ==
  [][(/\ LineStep
      /\ OpenIndex(ReadLines) = 0
      /\ IsEndLine(ReadLines'[Len(ReadLines')])) =>
       /\ scan'.pc = "done"
       /\ result'.tag = "InvalidSection"
       /\ result'.line = Len(ReadLines')
       /\ result'.found = IdentityOfEnd(ReadLines'[Len(ReadLines')])
       /\ StoreUnchanged]_vars

\* after a named region was closed, "//!end 02" was read at line 4 with no region
\* open: the identity found is 2
C11_Witness ==
  /\ scan.pc = "done"
  /\ result.tag = "InvalidSection" /\ result.line = 4 /\ result.found = "2"
  /\ ReadLines = <<<<BeginMarker("X")>>, <<"a">>, <<EndMarker("X")>>,
                   <<PartialEndMarker("2")>>>>

\* C12: at every point of a scan at most one region is open: current_section and
\* current_partial are never both set
C12_AtMostOneOpen ==
  ~(scan.current_section # NoSection /\ scan.current_partial # NoPartial)

\* a partial region is open at line 4, after a named region was opened and closed
C12_Witness ==
  /\ scan.pc = "loop"
  /\ scan.current_partial = 2 /\ scan.current_section = NoSection
  /\ Len(ReadLines) = 4
  /\ begin_pattern(ReadLines[1]) = "X" /\ end_pattern(ReadLines[3]) = "X"
  /\ partial_begin_pattern(ReadLines[4]) # NoMatch

\* the marker texts of the two kinds
NamedMarkerTexts == {BeginMarker(n) : n \in Names} \cup {EndMarker(n) : n \in Names}
PartialMarkerTexts ==
  {PartialBeginMarker(d) : d \in DigitStrings} \cup {PartialEndMarker(d) : d \in DigitStrings}

\* a line of the text t holds one of the marker texts S
HoldsMarker(t, S) == \E i \in 1..Len(t) : t[i] \in S

\* C13: no text stored in the named capture map holds a named begin or end marker
\* line, and no text stored in the partial capture map holds a partial begin or
\* end marker line
C13_NoOwnMarkerStored ==
  /\ \A n \in DOMAIN captured_content : ~HoldsMarker(captured_content[n], NamedMarkerTexts)
  /\ \A k \in DOMAIN partial_sections : ~HoldsMarker(partial_sections[k], PartialMarkerTexts)

\* the scan of "BEGIN Y", "a", "", "END Y" stored two lines for Y, on top of the
\* earlier captures of X and 2
C13_Witness ==
  /\ scan.pc = "done" /\ result = Ok
  /\ "Y" \in DOMAIN captured_content /\ captured_content["Y"] = <<"a", NL, NL>>
  /\ "X" \in DOMAIN captured_content
  /\ has_partial_section(2)

\* C14: when the call returns an error, the named and the partial capture map are
\* what they were before the call
C14_FailFast ==
  (scan.pc = "done" /\ result # Ok) =>
     (captured_content = scan.cc0 /\ partial_sections = scan.ps0)

----------------------------------------------------------------------------
(* Steps of a generator: the calls of Spec *)

\* the step is a call of the operation op
CallOf(op) == call'.seq # call.seq /\ call'.op = op

\* the operations that take the name of a defined region
NamedOps == {"write_section", "write_section_without_description", "write_content_only"}

\* the step wrote nothing and left the writer as it was
WroteNothing == writer' = writer

\* the step appended exactly the text t to the output
Wrote(t) == writer'.out = writer.out \o t

\* the text the step appended to the output
Added == SubSeq(writer'.out, Len(writer.out) + 1, Len(writer'.out))

\* the text p occurs in the text t
IsInfix(p, t) == \E i \in 0..(Len(t) - Len(p)) : SubSeq(t, i + 1, i + Len(p)) = p

\* a text followed by a newline only when it does not already end with one
WithFinalNewline(t) == IF ends_with_newline(t) THEN t ELSE t \o <<NL>>

\* C7: write_section, write_section_without_description and write_content_only,
\* called with a name that was never defined, return UnknownSection carrying that
\* name, write nothing and leave the written tracker unchanged, also when a
\* captured content exists for the name.
C7_UnknownSection ==
  [][\A op \in NamedOps :
       (CallOf(op) /\ call'.name \notin DOMAIN sections)
         => /\ result'.tag = "UnknownSection"
            /\ result'.section = call'.name
            /\ WroteNothing
            /\ written_sections' = written_sections]_vars

\* write_section("Y") was refused although a content was captured for Y, after
\* X was written
C7_Witness ==
  /\ call.op = "write_section" /\ call.name = "Y"
  /\ "Y" \notin DOMAIN sections
  /\ "Y" \in DOMAIN captured_content
  /\ result.tag = "UnknownSection" /\ result.section = "Y"
  /\ written_sections = {"X"}
  /\ writer.out # <<>>

\* C6: write_section for a name that is already in the written set returns
\* success and writes nothing at all, whether or not the region has a description.
C6_SilentSkip ==
  [][(CallOf("write_section") /\ call'.name \in DOMAIN sections
        /\ call'.name \in written_sections)
       => (result'.tag = "Ok" /\ WroteNothing)]_vars

\* the output the specification gives for a region with the default content c
DefaultEmission(name, c) ==
  <<BeginMarker(name), NL>> \o WithFinalNewline(c) \o <<EndMarker(name), NL>> \o <<NL>>

\* C4: write_section for a defined, not yet written region with no capture writes
\* the begin marker line, the default content followed by a newline only when it
\* does not already end with one, the end marker line and one blank line; with no
\* description that is the whole output of the call.
C4_DefaultEmission ==
  [][\A name \in Names :
       (/\ CallOf("write_section") /\ call'.name = name
        /\ name \in DOMAIN sections
        /\ name \notin written_sections
        /\ name \notin DOMAIN captured_content
        /\ sections[name].default_content.some
        /\ writer.indent_level = 0)
       => /\ IsInfix(DefaultEmission(name, sections[name].default_content.val), Added)
          /\ ~sections[name].description.some
               => Wrote(DefaultEmission(name, sections[name].default_content.val))]_vars

\* C2: after a successful scan captured the content c for a region, the first later
\* write_section of that region writes exactly c between its begin marker line and
\* its end marker line, and write_partial_section of a captured number writes
\* exactly the captured content between its markers, whatever the defaults are.
C2_EditPreserved ==
  [][/\ \A name \in Names :
          (/\ CallOf("write_section") /\ call'.name = name
           /\ name \in DOMAIN sections
           /\ name \notin written_sections
           /\ name \in DOMAIN captured_content)
          => IsInfix(<<BeginMarker(name), NL>> \o captured_content[name]
                       \o <<EndMarker(name), NL>>, Added)
     /\ \A number \in DOMAIN partial_sections :
          (CallOf("write_partial_section") /\ call'.number = number)
          => Wrote(<<PartialBeginMarker(U32ToString(number)), NL>>
                     \o partial_sections[number]
                     \o <<PartialEndMarker(U32ToString(number)), NL>>)]_vars

\* the text the specification gives for write_partial_section(number, default)
PartialEmission(number, default) ==
  <<PartialBeginMarker(U32ToString(number)), NL>>
  \o (IF number \in DOMAIN partial_sections THEN partial_sections[number]
      ELSE IF default.some THEN WithFinalNewline(default.val)
      ELSE <<>>)
  \o <<PartialEndMarker(U32ToString(number)), NL>>

\* C16: write_partial_section(n, default) writes the line "//!begin n", then the
\* captured content of n if there is one and otherwise the inline default,
\* followed by a newline only when it does not already end with one, then the line
\* "//!end n"; it succeeds whatever the registry and the tracker hold, leaves the
\* tracker alone, and writes the marker pair at every call.
C16_PartialEmission ==
  [][(CallOf("write_partial_section") /\ writer.indent_level = 0) =>
       /\ result'.tag = "Ok"
       /\ Wrote(PartialEmission(call'.number, call'.default))
       /\ written_sections' = written_sections]_vars

\* C17: clear_captured_content empties the named and the partial capture map and
\* the written tracker and leaves every definition unchanged; after it the content
\* of every name is its default, and the next write_section of a defined name
\* writes its marker pair, also when the name was written before.
C17_Clear ==
  [][/\ CallOf("clear_captured_content") =>
          /\ captured_content' = EmptyMap
          /\ partial_sections' = EmptyMap
          /\ written_sections' = {}
          /\ sections' = sections
          /\ \A name \in Names :
               get_section_content([sections |-> sections',
                                    captured_content |-> captured_content'], name)
                 = (IF name \in DOMAIN sections THEN sections[name].default_content
                    ELSE None)
     /\ (/\ CallOf("write_section")
         /\ call.op = "clear_captured_content"
         /\ call'.name \in DOMAIN sections) =>
          /\ IsInfix(<<BeginMarker(call'.name), NL>>, Added)
          /\ IsInfix(<<EndMarker(call'.name), NL>>, Added)
          /\ call'.name \in written_sections']_vars

\* the third call was clear_captured_content: the output shows that X, which has a
\* description and no default, was written by write_section with the captured
\* line "a"; the maps and the tracker are empty and X is defined as before
C17_Witness ==
  /\ call.op = "clear_captured_content" /\ call.seq = 3
  /\ "X" \in DOMAIN sections
  /\ sections["X"] = UserSection(Some(<<"File header">>), None)
  /\ IsInfix(Comment(<<"File header">>) \o <<NL, BeginMarker("X"), NL, "a">>, writer.out)
  /\ captured_content = EmptyMap /\ partial_sections = EmptyMap
  /\ written_sections = {}

----------------------------------------------------------------------------
(* Passes of a generator: the states of SpecRound *)

\* the second pass has made all the calls of the first
SecondPassDone == pass.n = 3 /\ Len(pass.results) = Len(pass.log)

\* C3: the file produced by emitting with no prior capture, when scanned and
\* re-emitted by the same emission sequence with the same registry after a reset
\* of the written tracker, is identical to the first file.
C3_RoundTrip == SecondPassDone => writer.out = pass.first

\* the number of occurrences of the atom a in the text t
Count(a, t) == Cardinality({i \in 1..Len(t) : t[i] = a})

\* the calls the current pass has made
PassCalls == 1..Len(pass.results)

\* write_section(name) returned Ok in the current pass
EmittedOk(name) ==
  \E i \in PassCalls :
    /\ pass.log[i].op = "write_section" /\ pass.log[i].name = name
    /\ pass.results[i].tag = "Ok"

\* C5: when the calls of a pass are write_section calls, its output holds exactly
\* one begin marker and exactly one end marker for each name that was emitted
\* successfully, however many times write_section was called for that name.
C5_AtMostOnce ==
  (\A i \in PassCalls : pass.log[i].op = "write_section")
    => \A name \in Names :
         EmittedOk(name)
           => /\ Count(BeginMarker(name), writer.out) = 1
              /\ Count(EndMarker(name), writer.out) = 1

\* a second pass, after the reset, that called write_section for X, for X again
\* and for Y
C5_Witness ==
  /\ SecondPassDone
  /\ Len(pass.log) = 3
  /\ \A i \in 1..3 : pass.log[i].op = "write_section" /\ pass.results[i].tag = "Ok"
  /\ pass.log[1].name = "X" /\ pass.log[2].name = "X" /\ pass.log[3].name = "Y"
  /\ sections["X"].description.some
  /\ Count(BeginMarker("X"), writer.out) = 1
  /\ Count(EndMarker("Y"), writer.out) = 1

----------------------------------------------------------------------------
(* Calls on the registry: the states and steps of SpecRegistry *)

\* the call that led to this state, with its arguments
LastOp == pass.log[Len(pass.log)]

\* the capture maps and the tracker are as they were
CapturesAndTrackerUnchanged ==
  /\ captured_content' = captured_content
  /\ partial_sections' = partial_sections
  /\ written_sections' = written_sections

\* C15: get_section_content(name) returns the captured text whenever a capture
\* exists for name, also an empty one and also for a name without a definition,
\* otherwise the default content of the definition if it has one, otherwise no
\* content; get_partial_section_content(id) returns the captured text if there is
\* one and None otherwise.
C15_ResolveFallback ==
  /\ call.op = "get_section_content" =>
       result = Value(IF call.name \in DOMAIN captured_content
                      THEN Some(captured_content[call.name])
                      ELSE IF call.name \in DOMAIN sections
                              /\ sections[call.name].default_content.some
                      THEN Some(sections[call.name].default_content.val)
                      ELSE None)
  /\ call.op = "get_partial_section_content" =>
       result = Value(IF call.number \in DOMAIN partial_sections
                      THEN Some(partial_sections[call.number])
                      ELSE None)

\* X was defined with the default "a\n", an empty region X was captured, and the
\* lookup of X returned the empty captured text
C15_Witness ==
  /\ Len(pass.log) = 3
  /\ pass.log[1].op = "define_section_with_default" /\ pass.log[1].default = Some(<<"a", NL>>)
  /\ pass.log[2].op = "capture_from_string"
  /\ call.op = "get_section_content" /\ call.name = "X"
  /\ captured_content = [n \in {"X"} |-> <<>>]
  /\ result = Value(Some(<<>>))

\* C19: each of define_section, define_section_with_description and
\* define_section_with_default replaces the whole definition of its name: the
\* description and the default are those of the call alone; it does not fail and
\* changes no other name's definition, no captured content and not the tracker.
C19_LastWriteWins ==
  [][\A op \in {"define_section", "define_section_with_description",
                "define_section_with_default"} :
       CallOf(op) =>
         LET c == pass'.log[Len(pass'.log)]
         IN /\ result'.tag = "Ok"
            /\ DOMAIN sections' = DOMAIN sections \cup {c.name}
            /\ sections'[c.name].description =
                 (IF op = "define_section" THEN None ELSE c.description)
            /\ sections'[c.name].default_content =
                 (IF op = "define_section_with_default" THEN c.default ELSE None)
            /\ \A n \in DOMAIN sections \ {c.name} : sections'[n] = sections[n]
            /\ CapturesAndTrackerUnchanged]_vars

\* X was defined with a description and a default, captured and written, and
\* then defined again by define_section: it has no description and no default
C19_Witness ==
  /\ Len(pass.log) = 4
  /\ pass.log[1].op = "define_section_with_default" /\ pass.log[1].description.some
  /\ pass.log[2].op = "capture_from_string"
  /\ pass.log[3].op = "write_section"
  /\ LastOp.op = "define_section" /\ LastOp.name = "X"
  /\ sections["X"].description = None /\ sections["X"].default_content = None
  /\ "X" \in DOMAIN captured_content
  /\ written_sections = {"X"}

\* C20: validate succeeds exactly when every key of the named capture map is a
\* defined name, and otherwise fails with UnknownSection naming a captured name
\* without a definition; it ignores the partial captures and changes no state.
\* It is not run by a scan or an emission: the scan of a well-formed text that
\* captures an undefined name succeeds, and so does the emission of a defined
\* region while such a capture exists.
C20_Validate ==
  [][/\ CallOf("validate") =>
          /\ (result'.tag = "Ok") <=> (DOMAIN captured_content \subseteq DOMAIN sections)
          /\ result'.tag # "Ok" =>
               /\ result'.tag = "UnknownSection"
               /\ \E n \in DOMAIN captured_content \ DOMAIN sections :
                    result'.section = ValidateMessage(n)
          /\ sections' = sections /\ writer' = writer
          /\ CapturesAndTrackerUnchanged
     /\ CallOf("capture_from_string") => result'.tag = "Ok"
     /\ (CallOf("write_section") /\ call'.name \in DOMAIN sections) => result'.tag = "Ok"]_vars

\* X is defined, the regions Y and 2 were captured, and validate failed naming Y
C20_Witness ==
  /\ call.op = "validate"
  /\ result.tag = "UnknownSection" /\ result.section = ValidateMessage("Y")
  /\ DOMAIN sections = {"X"}
  /\ DOMAIN captured_content = {"Y"}
  /\ has_partial_section(2)

----------------------------------------------------------------------------
(* The tracker across the passes of SpecRound *)

\* write_section(name) was called before in the current pass
CalledInPass(name) ==
  \E i \in PassCalls : pass.log[i].op = "write_section" /\ pass.log[i].name = name

\* C18: reset_written_tracker empties the tracker, so that is_section_written is
\* false for every name, and changes neither the registry nor the capture maps;
\* after it, the first write_section of the pass for a defined name writes the
\* marker pair again although the name was written in the pass before; no call
\* other than reset_written_tracker and clear_captured_content removes a name
\* from the tracker.
C18_TrackerPerPass ==
  [][/\ CallOf("reset_written_tracker") =>
          /\ \A name \in Names : name \notin written_sections'
          /\ sections' = sections
          /\ captured_content' = captured_content
          /\ partial_sections' = partial_sections
     /\ (/\ CallOf("write_section") /\ pass.n = 3
         /\ call'.name \in DOMAIN sections
         /\ ~CalledInPass(call'.name)) =>
          /\ Count(BeginMarker(call'.name), Added) = 1
          /\ Count(EndMarker(call'.name), Added) = 1
     /\ (call'.op \notin {"reset_written_tracker", "clear_captured_content"}) =>
          written_sections \subseteq written_sections']_vars

\* both passes called write_section for X and for Y; the output of each holds
\* the marker pair of X
C18_Witness ==
  /\ SecondPassDone
  /\ Len(pass.log) = 2
  /\ pass.log[1].op = "write_section" /\ pass.log[1].name = "X"
  /\ pass.log[2].op = "write_section" /\ pass.log[2].name = "Y"
  /\ Count(BeginMarker("X"), pass.first) = 1 /\ Count(EndMarker("X"), pass.first) = 1
  /\ Count(BeginMarker("X"), writer.out) = 1 /\ Count(EndMarker("X"), writer.out) = 1
  /\ written_sections = {"X", "Y"}

----------------------------------------------------------------------------
(* Captures from a file: the steps of SpecFile *)

\* C21: capture_from_file on a path that does not exist returns success and leaves
\* both capture maps unchanged, so that on a fresh manager the content of every
\* region is its default; on a file that exists and cannot be read it returns
\* CaptureFailed carrying the path, as an error value.
C21_CaptureFromFile ==
  [][CallOf("capture_from_file") =>
       /\ call'.file.kind = "missing" =>
            /\ result'.tag = "Ok"
            /\ StoreUnchanged
            /\ captured_content = EmptyMap =>
                 \A name \in DOMAIN sections :
                   get_section_content([sections |-> sections',
                                        captured_content |-> captured_content'], name)
                     = sections[name].default_content
       /\ call'.file.kind = "unreadable" =>
            /\ result'.tag = "CaptureFailed"
            /\ result'.section = call'.name
            /\ StoreUnchanged]_vars

\* the third call was capture_from_file on a missing path: it succeeded, and the
\* captures of an earlier file are still there
C21_Witness ==
  /\ call.op = "capture_from_file" /\ call.seq = 3
  /\ call.file = Missing
  /\ result.tag = "Ok"
  /\ "Y" \in DOMAIN captured_content /\ has_partial_section(2)
  /\ "X" \in DOMAIN sections

----------------------------------------------------------------------------
(* Lines that hold more than a marker: the steps of SpecTokens *)

PartialBeginTexts == {PartialBeginMarker(d) : d \in DigitStrings}
NamedBeginTexts == {BeginMarker(n) : n \in Names}
PartialEndTexts == {PartialEndMarker(d) : d \in DigitStrings}
NamedEndTexts == {EndMarker(n) : n \in Names}

\* the line the step has read
LineRead == scan'.lines[Len(scan'.lines)]

\* a region is open before the step
Open_ == scan.current_section # NoSection \/ scan.current_partial # NoPartial

\* the step took the line l as content, or discarded it when no region is open
TakenAsContent(l) ==
  /\ scan'.pc = "loop"
  /\ result' = NoResult
  /\ StoreUnchanged
  /\ scan'.current_section = scan.current_section
  /\ scan'.current_partial = scan.current_partial
  /\ scan'.section_content =
       (IF Open_ THEN scan.section_content \o l \o <<NL>> ELSE scan.section_content)

\* the marker is the sole token of the line l apart from whitespace
SoleMarker(l) ==
  \E i \in 1..Len(l) :
    /\ l[i] \in NamedMarkerTexts \cup PartialMarkerTexts
    /\ \A j \in 1..Len(l) : j # i => l[j] = IndentUnit

\* C22: a line is recognised as a marker only when the marker is its sole token
\* apart from whitespace; any other line, also one that holds marker text next to
\* other text, is appended to the content inside an open region and discarded
\* when no region is open.
C22_SoleToken ==
  [][(LineStep /\ ~SoleMarker(LineRead)) => TakenAsContent(LineRead)]_vars

\* the first of the four kinds, in the order of the scanner, of which the line l
\* holds a marker
KindOf(l) ==
  IF HoldsMarker(l, PartialBeginTexts) THEN "partial_begin"
  ELSE IF HoldsMarker(l, NamedBeginTexts) THEN "begin"
  ELSE IF HoldsMarker(l, PartialEndTexts) THEN "partial_end"
  ELSE IF HoldsMarker(l, NamedEndTexts) THEN "end"
  ELSE "none"

\* the step failed with an error of one of the tags and committed nothing
FailedWith(tags) == scan'.pc = "done" /\ result'.tag \in tags /\ StoreUnchanged

\* C28: each line triggers the one transition of the first kind, in the order
\* partial-begin, named-begin, partial-end, named-end, of which it holds a marker:
\* a begin opens a region when none is open and is NestedSection otherwise, also
\* when the line holds an end marker too; an end closes the region of its kind or
\* fails; a line of no kind is content inside a region and is discarded outside.
\* The result of a scan is the function capture_from_string of the text read.
C28_OneTransition ==
  /\ [][LineStep =>
          LET k == KindOf(LineRead)
          IN /\ k = "partial_begin" =>
                  IF Open_ THEN FailedWith({"NestedSection"})
                  ELSE /\ scan'.pc = "loop" /\ StoreUnchanged
                       /\ scan'.current_partial # NoPartial
                       /\ scan'.current_section = NoSection
                       /\ scan'.section_content = <<>>
             /\ k = "begin" =>
                  IF Open_ THEN FailedWith({"NestedSection"})
                  ELSE /\ scan'.pc = "loop" /\ StoreUnchanged
                       /\ scan'.current_section # NoSection
                       /\ scan'.current_partial = NoPartial
                       /\ scan'.section_content = <<>>
             /\ k = "partial_end" =>
                  \/ FailedWith({"MismatchedSection", "InvalidSection"})
                  \/ /\ scan'.pc = "loop"
                     /\ scan.current_partial # NoPartial
                     /\ scan'.current_partial = NoPartial
                     /\ partial_sections' =
                          Insert(partial_sections, scan.current_partial, scan.section_content)
                     /\ captured_content' = captured_content
             /\ k = "end" =>
                  \/ FailedWith({"MismatchedSection", "InvalidSection"})
                  \/ /\ scan'.pc = "loop"
                     /\ scan.current_section # NoSection
                     /\ scan'.current_section = NoSection
                     /\ captured_content' =
                          Insert(captured_content, scan.current_section, scan.section_content)
                     /\ partial_sections' = partial_sections
             /\ k = "none" => TakenAsContent(LineRead)]_vars
  /\ [](scan.pc = "done" =>
          LET s == capture_from_string(scan.read, scan.cc0, scan.ps0)
          IN result = s.res /\ captured_content = s.cc /\ partial_sections = s.ps)

\* the line "BEGIN X END X" was read with no region open: region X is open
C28_Witness ==
  /\ scan.pc = "loop"
  /\ scan.current_section = "X"
  /\ ReadLines = <<<<"a">>, <<BeginMarker("X"), EndMarker("X")>>>>

----------------------------------------------------------------------------
(* Markers of the other kind inside a region: the steps of SpecScan *)

\* a named region is open and the line read holds a partial marker, or a partial
\* region is open and the line read holds a named marker
OtherKindInside ==
  LET o == OpenIndex(ReadLines)
  IN /\ o # 0
     /\ \/ /\ begin_pattern(ReadLines[o]) # NoMatch
           /\ HoldsMarker(LineRead, PartialMarkerTexts)
        \/ /\ partial_begin_pattern(ReadLines[o]) # NoMatch
           /\ HoldsMarker(LineRead, NamedMarkerTexts)

\* C23 as stated: a marker line of the other kind inside a region is kept as
\* content of the region and the scan goes on.
C23_OtherKindIsContent ==
  [][(LineStep /\ OtherKindInside) => TakenAsContent(LineRead)]_vars

\* C23: a marker line of the other kind inside a region ends the scan with an
\* error that carries the number of the line: NestedSection for a begin marker,
\* InvalidSection of the marker's kind for an end marker; the line is not
\* captured and the store is left unchanged.
C23_OtherKindRejected ==
  [][(LineStep /\ OtherKindInside) =>
       /\ scan'.pc = "done"
       /\ result'.line = Len(ReadLines')
       /\ StoreUnchanged
       /\ IF HoldsMarker(LineRead, PartialBeginTexts \cup NamedBeginTexts)
          THEN result'.tag = "NestedSection"
          ELSE /\ result'.tag = "InvalidSection"
               /\ result'.section =
                    (IF HoldsMarker(LineRead, PartialEndTexts) THEN "partial" ELSE "user")]_vars

\* the partial region 1 was open with the line "a" when "BEGIN X" was read at
\* line 3
C23_Witness ==
  /\ scan.pc = "done"
  /\ result.tag = "NestedSection" /\ result.line = 3
  /\ ReadLines = <<<<PartialBeginMarker("1")>>, <<"a">>, <<BeginMarker("X")>>>>
  /\ captured_content = scan.cc0 /\ partial_sections = scan.ps0

----------------------------------------------------------------------------
(* Emissions of regions without content, and the frame of the captures: the   *)
(* steps of Spec                                                              *)

\* the output test_user_section_manager expects for a region with the
\* description d and no content
EmptyRegionEmission(name, d) ==
  Comment(d) \o <<NL>> \o <<BeginMarker(name), NL>> \o <<NL>>
  \o <<EndMarker(name), NL>> \o <<NL>>

\* C24: write_section for a defined, not yet written region that has a
\* description and neither captured nor default content writes exactly the
\* description comment line, the begin marker line, one empty line, the end
\* marker line and one empty line.
C24_EmptyRegionEmission ==
  [][\A name \in Names :
       (/\ CallOf("write_section") /\ call'.name = name
        /\ name \in DOMAIN sections
        /\ name \notin written_sections
        /\ name \notin DOMAIN captured_content
        /\ sections[name].description.some
        /\ ~sections[name].default_content.some
        /\ writer.indent_level = 0)
       => Wrote(EmptyRegionEmission(name, sections[name].description.val))]_vars

\* C25: once a region's text is in the named or the partial capture map, no call
\* other than clear_captured_content changes or removes it: emissions,
\* reset_written_tracker and further scans leave every captured entry as it is.
C25_CapturedImmutable ==
  [][(call'.seq # call.seq /\ call'.op # "clear_captured_content") =>
       /\ \A name \in DOMAIN captured_content :
            /\ name \in DOMAIN captured_content'
            /\ captured_content'[name] = captured_content[name]
       /\ \A number \in DOMAIN partial_sections :
            /\ number \in DOMAIN partial_sections'
            /\ partial_sections'[number] = partial_sections[number]]_vars

\* the content of the region name as the claims state it: captured, else
\* default, else empty
ResolvedContent(name) ==
  IF name \in DOMAIN captured_content THEN captured_content[name]
  ELSE IF sections[name].default_content.some THEN sections[name].default_content.val
  ELSE <<>>

\* C29: write_section_without_description writes nothing when the name is already
\* in the written tracker, and otherwise writes one marker pair and records the
\* name as written.
C29_VariantTracked ==
  [][\A name \in Names :
       (/\ CallOf("write_section_without_description") /\ call'.name = name
        /\ name \in DOMAIN sections)
       => /\ result'.tag = "Ok"
          /\ IF name \in written_sections
             THEN WroteNothing /\ written_sections' = written_sections
             ELSE /\ Count(BeginMarker(name), Added) = 1
                  /\ Count(EndMarker(name), Added) = 1
                  /\ written_sections' = written_sections \cup {name}]_vars

\* C30: write_content_only for a defined name writes the resolved content,
\* followed by a newline only when the content is not empty and does not end
\* with one, and nothing else; it writes nothing for empty content and leaves the
\* written tracker unchanged.
C30_ContentOnly ==
  [][\A name \in Names :
       (/\ CallOf("write_content_only") /\ call'.name = name
        /\ name \in DOMAIN sections
        /\ writer.indent_level = 0)
       => /\ result'.tag = "Ok"
          /\ written_sections' = written_sections
          /\ Wrote(IF ResolvedContent(name) = <<>> THEN <<>>
                   ELSE WithFinalNewline(ResolvedContent(name)))]_vars

----------------------------------------------------------------------------
(* What the errors of a scan report: the steps of SpecScan *)

ScanErrors == {"NestedSection", "MismatchedSection", "InvalidSection", "UnclosedSection"}

\* C26: every error a scan returns for a malformed input carries the 1-based
\* number of a line of the input, the line at which the violation was detected.
C26_ErrorsCarryLine ==
  (scan.pc = "done" /\ result.tag \in ScanErrors) =>
    /\ result.line >= 1
    /\ result.line <= Len(ReadLines)

\* the labels that name the region the begin marker line b opened
LabelsOf(b) ==
  IF begin_pattern(b) # NoMatch THEN {begin_pattern(b)}
  ELSE {IdentityOfBegin(b), "partial " \o IdentityOfBegin(b),
        "partial section " \o IdentityOfBegin(b)}

\* C27: when a begin marker, named or partial, is read while a region is open,
\* the section of the NestedSection error names the region that is open.
C27_NestedReportsOpen ==
  [][(LineStep /\ OpenIndex(ReadLines) # 0 /\ IsBeginLine(LineRead)) =>
       /\ result'.tag = "NestedSection"
       /\ result'.section \in LabelsOf(ReadLines[OpenIndex(ReadLines)])]_vars

----------------------------------------------------------------------------
(* Failing writers: the steps of SpecFailing *)

\* C31: when the writer fails during write_section, the error is returned and
\* the name is not recorded as written: the tracker is as it was before the call,
\* so that a retry in the same pass emits the region.
C31_FailureNotRecorded ==
  [][(CallOf("write_section") /\ result'.tag # "Ok") =>
       /\ result'.tag \in {"Io", "UnknownSection"}
       /\ written_sections' = written_sections]_vars

----------------------------------------------------------------------------
(* Digit strings of partial markers: the steps of SpecDigits *)

\* C32: capture_from_string returns a value, success or one of its errors, for
\* every input and never aborts, also when the digit string of a partial marker
\* denotes a number larger than 2^32-1.
C32_NeverAborts ==
  scan.pc = "done" => result.tag \in {"Ok"} \cup ScanErrors

----------------------------------------------------------------------------
(* Regions that occur twice in one text: the states of SpecScan *)

\* C33: when the scanned text holds two well-formed regions of one name or of one
\* partial number, the scan succeeds and the store holds for that identity
\* exactly the lines of the last of them; the buffer is cleared at every begin
\* marker: while a region is open it holds exactly the lines read since the
\* begin marker, so no line of an earlier region gets into a later one.
C33_LastOccurrenceKept ==
  /\ (scan.pc = "done" /\ WellFormed(ReadLines)) =>
       \A q \in RegionsOf(ReadLines), r \in RegionsOf(ReadLines) :
         (/\ q[1] < r[1]
          /\ SameIdentity(ReadLines[q[1]], ReadLines[r[1]])
          /\ IsLastOfIdentity(ReadLines, r)) =>
           /\ result = Ok
           /\ StoredAs(ReadLines[r[1]], Body(ReadLines, r[1], r[2]))
  /\ (scan.pc = "loop" /\ OpenIndex(ReadLines) # 0) =>
       scan.section_content = Body(ReadLines, OpenIndex(ReadLines), Len(ReadLines) + 1)

\* region X was scanned with the line "a" and then once more with no line: the
\* scan succeeded and the store holds the empty content for X
C33_Witness ==
  /\ scan.pc = "done" /\ result = Ok
  /\ ReadLines = <<<<BeginMarker("X")>>, <<"a">>, <<EndMarker("X")>>,
                   <<BeginMarker("X")>>, <<EndMarker("X")>>>>
  /\ captured_content["X"] = <<>>

====
